---- MODULE Spec2Model ----
(***************************************************************************)
(* Dynamic Smagorinsky sub-grid-scale model (src/src/turbulence.c):        *)
(* filter_, the separable 3-tap filter, and DynamicSmagorinsky, the        *)
(* Germano-Lilly estimator of the eddy viscosity mu_SGS.                   *)
(*                                                                         *)
(* A `real` is a pair <<m, f>>: the finite value m/Q when f = 1, and the   *)
(* IEEE specials when f = 0 (<<1,0>> = +Inf, <<-1,0>> = -Inf, <<0,0>> =    *)
(* NaN).  Sums are exact; products, quotients and square roots are rounded *)
(* toward zero to a multiple of 1/Q.                                       *)
(***************************************************************************)
EXTENDS Integers, Sequences, FiniteSets, TLC

(* ------------------------------ grid --------------------------------- *)

\* Interior grid dimensions (def.h: LEN, HIG, DEP), scaled down.
LEN == 2
HIG == 2
DEP == 2
\* Number of DynamicSmagorinsky invocations a behaviour makes.
MaxCalls == 2

\* Upper loop limits: `for (i = 1; i < LENN; i++)` visits the LEN interior cells.
LENN == LEN + 1
HIGG == HIG + 1
DEPP == DEP + 1

\* The cells of an Array3D( LEN+2, HIG+2, DEP+2 ).
Cells == (0..LEN+1) \X (0..HIG+1) \X (0..DEP+1)

\* The cells visited by  for(i=i0;i<i1;i++) for(j=j0;j<j1;j++) for(k=k0;k<k1;k++).
InLoop(c, i0, i1, j0, j1, k0, k1) ==
  /\ i0 <= c[1] /\ c[1] < i1
  /\ j0 <= c[2] /\ c[2] < j1
  /\ k0 <= c[3] /\ c[3] < k1

Interior == {c \in Cells : InLoop(c, 1, LENN, 1, HIGG, 1, DEPP)}

\* The neighbour of cell c at offset o along axis ax (1 = i, 2 = j, 3 = k).
Shift(c, ax, o) == [c EXCEPT ![ax] = c[ax] + o]

(* ------------------------------ reals -------------------------------- *)

\* The number of units in 1.0: a finite real is a whole number of 1/Q.
Q == 1296

Abs(n) == IF n < 0 THEN -n ELSE n
Sgn(n) == IF n < 0 THEN -1 ELSE IF n > 0 THEN 1 ELSE 0

NaN == <<0, 0>>
PInf == <<1, 0>>
NInf == <<-1, 0>>
Zero == <<0, 1>>
IsNaN(x) == x = NaN
IsFinite(x) == x[2] # 0

\* <<q, r>> with a*b = q*c + r and 0 <= r < c, for a, b >= 0 and c > 0,
\* computed bit by bit so that no intermediate product leaves the machine word.
RECURSIVE MulDivRem(_, _, _)
MulDivRem(a, b, c) ==
  IF b = 0 THEN <<0, 0>>
  ELSE LET h == MulDivRem(a, b \div 2, c)
           r2 == 2 * h[2] + (IF b % 2 = 1 THEN a % c ELSE 0)
           q2 == 2 * h[1] + (IF b % 2 = 1 THEN a \div c ELSE 0)
       IN <<q2 + (r2 \div c), r2 % c>>

\* a*b \div c for a, b >= 0 and c > 0.
MulDiv(a, b, c) ==
  IF a = 0 \/ b <= 2147483647 \div a THEN (a * b) \div c
  ELSE IF a < b THEN MulDivRem(b, a, c)[1] ELSE MulDivRem(a, b, c)[1]

\* The literal n/d (d > 0), rounded toward zero.
R(n, d) == <<Sgn(n) * MulDiv(Abs(n), Q, d), 1>>

Neg(x) == <<-x[1], x[2]>>

Add(x, y) ==
  IF x[2] = 0 \/ y[2] = 0
  THEN IF x = NaN \/ y = NaN THEN NaN
       ELSE IF x[2] = 0 /\ y[2] = 0 THEN (IF x = y THEN x ELSE NaN)
       ELSE IF x[2] = 0 THEN x ELSE y
  ELSE <<x[1] + y[1], 1>>

Sub(x, y) == Add(x, Neg(y))

\* x * y, rounded toward zero; Inf*0 = NaN.
Mul(x, y) ==
  IF x[2] = 0 \/ y[2] = 0 THEN <<Sgn(x[1]) * Sgn(y[1]), 0>>
  ELSE <<Sgn(x[1]) * Sgn(y[1]) * MulDiv(Abs(x[1]), Abs(y[1]), Q), 1>>

\* x / y, rounded toward zero; x/0 = +-Inf, 0/0 = NaN, x/Inf = 0.
Div(x, y) ==
  IF x = NaN \/ y = NaN THEN NaN
  ELSE IF y[2] = 0 THEN (IF x[2] = 0 THEN NaN ELSE Zero)
  ELSE IF x[2] = 0 THEN (IF y[1] < 0 THEN Neg(x) ELSE x)
  ELSE IF y[1] = 0 THEN <<Sgn(x[1]), 0>>
  ELSE <<Sgn(x[1]) * Sgn(y[1]) * MulDiv(Abs(x[1]), Q, Abs(y[1])), 1>>

\* x < y; every comparison with NaN is false.
Lt(x, y) ==
  IF x = NaN \/ y = NaN THEN FALSE
  ELSE IF x[2] = 0 /\ y[2] = 0 THEN x[1] < y[1]
  ELSE IF x[2] = 0 THEN x[1] < 0
  ELSE IF y[2] = 0 THEN y[1] > 0
  ELSE x[1] < y[1]

Gt(x, y) == Lt(y, x)
Ge(x, y) == x # NaN /\ y # NaN /\ ~Lt(x, y)

\* The largest r in lo..hi-1 with r*r <= m*Q.
RECURSIVE ISqrtIter(_, _, _)
ISqrtIter(m, lo, hi) ==
  IF hi - lo <= 1 THEN lo
  ELSE LET mid == (lo + hi) \div 2
           sq == MulDivRem(mid, mid, Q)
       IN IF sq[1] < m \/ (sq[1] = m /\ sq[2] = 0)
          THEN ISqrtIter(m, mid, hi) ELSE ISqrtIter(m, lo, mid)

\* sqrt(), rounded down: NaN for NaN and negative arguments, +Inf for +Inf.
Sqrt(x) ==
  IF x = NaN THEN NaN
  ELSE IF x[2] = 0 THEN (IF x[1] > 0 THEN x ELSE NaN)
  ELSE IF x[1] < 0 THEN NaN
  ELSE <<ISqrtIter(x[1], 0, (IF x[1] < Q THEN Q ELSE x[1]) + 1), 1>>

(* --------------------------- allocation ------------------------------ *)

\* What freshly allocated memory may hold.
HeapResidues == {"zero", "stale", "nan"}

\* The contents of the n-th buffer Array3D returns: the allocator leaves
\* whatever the memory held before.
Array3D(n, res) ==
  [c \in Cells |->
     IF res = "zero" THEN Zero
     ELSE IF res = "nan" THEN NaN
     ELSE R(((n + c[1] + 2 * c[2] + 3 * c[3]) % 3) - 1, 1)]

\* A pointer that holds no buffer (not yet allocated, or released).
NoField == <<>>

(* ----------------------------- filter_ ------------------------------- *)

\* tmp = 0.; for( l = 0; l < 3; l++ ) tmp += F[..+l-1..]*ker[l];
Stencil(F, c, ax, ker) ==
  Add(Add(Add(Zero, Mul(F[Shift(c, ax, -1)], ker[1])), Mul(F[c], ker[2])),
      Mul(F[Shift(c, ax, 1)], ker[3]))

\* First pass, along j, from the input into U__.
Pass1Cells == {c \in Cells : InLoop(c, 0, LENN, 1, HIGG, 0, DEPP)}
Pass1(src, dst, ker) ==
  [c \in Cells |-> IF c \in Pass1Cells THEN Stencil(src, c, 2, ker) ELSE dst[c]]

\* Second pass, along k, from U__ into U_.
Pass2Cells == {c \in Cells : InLoop(c, 0, LENN, 0, HIGG, 1, DEPP)}
Pass2(src, dst, ker) ==
  [c \in Cells |-> IF c \in Pass2Cells THEN Stencil(src, c, 3, ker) ELSE dst[c]]

\* Third pass, along i, from U_ back into U__.
Pass3Cells == {c \in Cells : InLoop(c, 1, LENN, 0, HIGG, 0, DEPP)}
Pass3(src, dst, ker) ==
  [c \in Cells |-> IF c \in Pass3Cells THEN Stencil(src, c, 1, ker) ELSE dst[c]]

\* The field filter_( F, ker ) returns when its buffers U_ and U__ are the
\* n-th and (n+1)-th allocations.
Filter_(F, ker, n, res) ==
  LET p1 == Pass1(F, Array3D(n + 1, res), ker)
      p2 == Pass2(p1, Array3D(n, res), ker)
  IN Pass3(p2, p1, ker)

(* ------------------------- configuration ----------------------------- *)

\* 1/(2*deltaX), 1/(2*deltaY), 1/(2*deltaZ) for a grid spacing of 1/2.
_2deltaX == R(1, 1)
_2deltaY == R(1, 1)
_2deltaZ == R(1, 1)
_2delta(ax) == IF ax = 1 THEN _2deltaX ELSE IF ax = 2 THEN _2deltaY ELSE _2deltaZ

\* The squared grid filter width and the guard of the division by MMMM.
DD == R(1, 4)
small == <<1, 1>>

\* real FilterKer[3] = { 1./3., 1./3., 1./3. };
FilterKer == <<R(1, 3), R(1, 3), R(1, 3)>>

(* ------------------------- tensor algebra ---------------------------- *)

\* The nine components, in the order the code lists them: 11 12 13 21 ... 33.
Comp == (1..3) \X (1..3)
CompOrder == <<<<1,1>>, <<1,2>>, <<1,3>>, <<2,1>>, <<2,2>>, <<2,3>>, <<3,1>>, <<3,2>>, <<3,3>>>>
Pos(ab) == 3 * (ab[1] - 1) + ab[2]

\* The values of the nine fields of T at cell c.
TensorAt(T, c) == [ab \in Comp |-> T[ab][c]]

RECURSIVE SumTo(_, _, _)
SumTo(X, Y, n) == IF n = 0 THEN Zero ELSE Add(SumTo(X, Y, n - 1), Mul(X[CompOrder[n]], Y[CompOrder[n]]))

\* X11*Y11 + X12*Y12 + ... + X33*Y33
Contract(X, Y) == SumTo(X, Y, 9)

\* du_a/dx_b = ( U_a[c + e_b] - U_a[c - e_b] ) * _2delta_b
Gradient(U, c) ==
  [ab \in Comp |->
     Mul(Sub(U[ab[1]][Shift(c, ab[2], 1)], U[ab[1]][Shift(c, ab[2], -1)]), _2delta(ab[2]))]

\* S11 = du_dx; S12 = 0.5*(du_dy + dv_dx); S21 = 0.5*(dv_dx + du_dy); ...
StrainTensor(U, c) ==
  LET G == Gradient(U, c)
  IN [ab \in Comp |->
        IF ab[1] = ab[2] THEN G[ab]
        ELSE Mul(R(1, 2), Add(G[ab], G[<<ab[2], ab[1]>>]))]

\* S = sqrt( 2*( S11*S11 + S12*S12 + ... + S33*S33 ) )
Magnitude(S) == Sqrt(Mul(R(2, 1), Contract(S, S)))

\* A11 = S * S11 ...  and  B11_ = S_ * S11_ ...
Scaled(mag, S) == [ab \in Comp |-> Mul(mag, S[ab])]

\* L11 = uu_ - u_*u_ ...
Leonard(uuc, uc) == [ab \in Comp |-> Sub(uuc[ab], Mul(uc[ab[1]], uc[ab[2]]))]

\* M11 = DD * ( 4*B11_ - A11_ ) ...
ModelTensor(Bc, Ac) == [ab \in Comp |-> Mul(DD, Sub(Mul(R(4, 1), Bc[ab]), Ac[ab]))]

\* The correction with the factor -(1.0/2.0) in place of -(1.0/3.0).
DeviatoricHalf(Lc) ==
  LET _trace12 == Mul(Neg(R(1, 2)), Add(Add(Lc[<<1,1>>], Lc[<<2,2>>]), Lc[<<3,3>>]))
  IN [ab \in Comp |-> IF ab[1] = ab[2] THEN Add(Lc[ab], _trace12) ELSE Lc[ab]]

\* _trace13 = -(1.0/3.0)*(L11 + L22 + L33); L11 += _trace13; L22 += ...; L33 += ...
Deviatoric(Lc) ==
  LET _trace13 == Mul(Neg(R(1, 3)), Add(Add(Lc[<<1,1>>], Lc[<<2,2>>]), Lc[<<3,3>>]))
  IN [ab \in Comp |-> IF ab[1] = ab[2] THEN Add(Lc[ab], _trace13) ELSE Lc[ab]]

\* Cd = -0.5*(LLMM/(MMMM + small))
CdRaw(Lc, Mc) == Mul(R(-1, 2), Div(Contract(Lc, Mc), Add(Contract(Mc, Mc), small)))

\* The clip without its second branch: if ( Cd > 0.15 ) Cd = 0.15;
ClipNoFloor(cd) == IF Gt(cd, R(15, 100)) THEN R(15, 100) ELSE cd

\* The clip without its first branch: if ( Cd < 0.0 ) Cd = 0.0;
ClipNoCap(cd) == IF Lt(cd, Zero) THEN Zero ELSE cd

\* if ( Cd > 0.15 ) Cd = 0.15; else if ( Cd < 0.0 ) Cd = 0.0;
Clip(cd) ==
  IF Gt(cd, R(15, 100)) THEN R(15, 100)
  ELSE IF Lt(cd, Zero) THEN Zero
  ELSE cd

\* rho*Cd*DD*magStrain
EddyViscosity(rhoc, cd, mag) == Mul(Mul(Mul(rhoc, cd), DD), mag)

(* --------------------------- buffer names ---------------------------- *)

VelName == <<"u", "v", "w">>
Digit == <<"1", "2", "3">>
LName(ab) == "L" \o Digit[ab[1]] \o Digit[ab[2]]
AName(ab) == "A" \o Digit[ab[1]] \o Digit[ab[2]]
A_Name(ab) == "A" \o Digit[ab[1]] \o Digit[ab[2]] \o "_"
B_Name(ab) == "B" \o Digit[ab[1]] \o Digit[ab[2]] \o "_"
uu_Name(ab) == VelName[ab[1]] \o VelName[ab[2]] \o "_"
u_Name(a) == VelName[a] \o "_"
\* The buffer U_ of the filter_ call whose result is x.
TmpName(x) == "U_ of " \o x

\* The buffers DynamicSmagorinsky allocates itself.
OwnBuffers ==
  {"magStrain"} \cup {VelName[a] : a \in 1..3}
    \cup {AName(ab) : ab \in Comp} \cup {B_Name(ab) : ab \in Comp} \cup {LName(ab) : ab \in Comp}

\* A filter_ that returns without its free3D( U_ ) call.
FilterFreesNothing(x) == {}

\* The buffers filter_ releases before it returns the field named x.
FilterFrees(x) == {TmpName(x)}

\* The free3D calls that end DynamicSmagorinsky, in order.
FreeList ==
  <<"u", "v", "w", "u_", "v_", "w_",
    "uu_", "uv_", "uw_", "vu_", "vv_", "vw_", "wu_", "wv_", "ww_",
    "A33_", "A32_", "A31_", "A23_", "A22_", "A21_", "A11_", "A12_", "A13_",
    "A33", "A32", "A31", "A23", "A22", "A21", "A11", "A12", "A13",
    "L11", "L12", "L13", "L21", "L22", "L23", "L31", "L32", "L33",
    "B11_", "B12_", "B13_", "B21_", "B22_", "B23_", "B31_", "B32_", "B33_",
    "magStrain">>

(* ------------------------------ inputs ------------------------------- *)

RhoKinds == {"const", "varying", "zero"}
MomentumKinds == {"uniform", "shear", "mixed"}

\* Density fields the caller may pass.
RhoField(kind) ==
  [c \in Cells |->
     IF kind = "const" THEN R(2, 1)
     ELSE IF kind = "varying" THEN R(1 + ((c[1] + c[2] + c[3]) % 2), 1)
     ELSE IF c = <<1, 1, 1>> THEN Zero ELSE R(1, 1)]

\* Momentum fields ru, rv, rw (a = 1, 2, 3) the caller may pass.
MomentumField(kind, a) ==
  [c \in Cells |->
     IF kind = "uniform" THEN R(<<2, -4, 6>>[a], 1)
     ELSE IF kind = "shear" THEN (IF a = 1 THEN R(2 * c[2], 1) ELSE Zero)
     ELSE IF a = 1 THEN R((c[1] * c[2] + c[3]) % 3, 1)
     ELSE IF a = 2 THEN R(((c[1] + 2 * c[3]) % 3) - 1, 1)
     ELSE R((c[2] * c[3] + c[1]) % 2, 1)]

\* What the caller's mu_SGS holds before the first call.
CallerMu == [c \in Cells |-> R(7, 1)]

(* ------------------------------- state ------------------------------- *)

VARIABLES
  pc,         \* where DynamicSmagorinsky stands
  calls,      \* invocations started so far
  residue,    \* what the heap holds during this invocation
  nalloc,     \* Array3D calls so far
  allocd,     \* buffers allocated during this invocation
  live,       \* buffers allocated and not yet released
  freed,      \* buffers released during this invocation
  releases,   \* free3D calls during this invocation
  fault,      \* a released or unallocated buffer was used or released
  rho, ru, rv, rw,   \* the caller's conservative fields
  mu_SGS,     \* the caller's output field
  lastMu,     \* mu_SGS as it was when this invocation started
  u,          \* u[1], u[2], u[3]: the primitive velocities u, v, w
  u_,         \* the filtered velocities u_, v_, w_
  uu_,        \* the filtered products uu_, uv_, ..., ww_
  L,          \* L11 .. L33
  A,          \* A11 .. A33
  A_,         \* A11_ .. A33_
  B_,         \* B11_ .. B33_
  magStrain,
  Cd          \* the value of the local Cd at each interior cell

dsvars == <<pc, calls, residue, nalloc, allocd, live, freed, releases, fault,
            rho, ru, rv, rw, mu_SGS, lastMu, u, u_, uu_, L, A, A_, B_, magStrain, Cd>>

inputs == <<rho, ru, rv, rw>>
heapvars == <<allocd, live, freed, releases>>

VARIABLES
  fpc,        \* where filter_ stands
  U, h,       \* its arguments
  fres,       \* what the heap holds
  U_, U__,    \* its two buffers
  asg_, asg__,  \* the cells of U_ and of U__ assigned so far
  undefRead,  \* <<pass, cell>>: the pass computed the cell from an unassigned one
  flive,      \* the buffers of filter_ allocated and not released
  out         \* the field returned

fvars == <<fpc, U, h, fres, U_, U__, asg_, asg__, undefRead, flive, out>>

InitDS ==
  /\ pc = "idle"
  /\ calls = 0
  /\ residue = "zero"
  /\ nalloc = 0
  /\ allocd = {} /\ live = {} /\ freed = {} /\ releases = 0
  /\ fault = FALSE
  /\ \E rk \in RhoKinds : rho = RhoField(rk)
  /\ \E mk \in MomentumKinds :
       /\ ru = MomentumField(mk, 1)
       /\ rv = MomentumField(mk, 2)
       /\ rw = MomentumField(mk, 3)
  /\ mu_SGS = CallerMu
  /\ lastMu = CallerMu
  /\ u = NoField /\ u_ = NoField /\ uu_ = NoField
  /\ L = NoField /\ A = NoField /\ A_ = NoField /\ B_ = NoField
  /\ magStrain = NoField
  /\ Cd = NoField

\* The step uses the buffers S: a fault when one of them is not live.
Uses(S) == fault' = (fault \/ ~(S \subseteq live))

(* ------------------------ DynamicSmagorinsky ------------------------- *)

\* Entry and the 31 Array3D calls: magStrain, u v w, A11.., B11_.., L11..
Allocate ==
  /\ UNCHANGED fvars
  /\ pc \in {"idle", "returned"}
  /\ calls < MaxCalls
  /\ calls' = calls + 1
  /\ \E res \in HeapResidues :
       /\ residue' = res
       /\ magStrain' = Array3D(nalloc, res)
       /\ u' = [a \in 1..3 |-> Array3D(nalloc + a, res)]
       /\ A' = [ab \in Comp |-> Array3D(nalloc + 3 + Pos(ab), res)]
       /\ B_' = [ab \in Comp |-> Array3D(nalloc + 12 + Pos(ab), res)]
       /\ L' = [ab \in Comp |-> Array3D(nalloc + 21 + Pos(ab), res)]
  /\ nalloc' = nalloc + 31
  /\ allocd' = OwnBuffers
  /\ live' = OwnBuffers
  /\ freed' = {}
  /\ releases' = 0
  /\ fault' = FALSE
  /\ lastMu' = mu_SGS
  /\ u_' = NoField /\ uu_' = NoField /\ A_' = NoField /\ Cd' = NoField
  /\ pc' = "allocated"
  /\ UNCHANGED <<inputs, mu_SGS>>

\* rr = 1./rho; u = ru*rr; v = rv*rr; w = rw*rr  over every cell.
PrimitiveCells == {c \in Cells : InLoop(c, 0, LENN + 1, 0, HIGG + 1, 0, DEPP + 1)}
Primitive ==
  /\ UNCHANGED fvars
  /\ pc = "allocated"
  /\ LET mom == <<ru, rv, rw>>
     IN u' = [a \in 1..3 |->
                [c \in Cells |->
                   IF c \in PrimitiveCells THEN Mul(mom[a][c], Div(R(1, 1), rho[c])) ELSE u[a][c]]]
  /\ Uses({"u", "v", "w"})
  /\ pc' = "primitive"
  /\ UNCHANGED <<calls, residue, nalloc, heapvars, inputs, mu_SGS, lastMu,
                 u_, uu_, L, A, A_, B_, magStrain, Cd>>

\* L11 = u*u; L12 = u*v; ... L33 = w*w  over every cell.
Products ==
  /\ UNCHANGED fvars
  /\ pc = "primitive"
  /\ L' = [ab \in Comp |->
             [c \in Cells |->
                IF c \in PrimitiveCells THEN Mul(u[ab[1]][c], u[ab[2]][c]) ELSE L[ab][c]]]
  /\ Uses({"u", "v", "w"} \cup {LName(ab) : ab \in Comp})
  /\ pc' = "products"
  /\ UNCHANGED <<calls, residue, nalloc, heapvars, inputs, mu_SGS, lastMu,
                 u, u_, uu_, A, A_, B_, magStrain, Cd>>

\* The heap after the filter_ calls that return the fields named in `results`.
FilterHeap(results) ==
  LET tmps == {TmpName(x) : x \in results}
      gone == UNION {FilterFrees(x) : x \in results}
  IN /\ allocd' = allocd \cup results \cup tmps
     /\ live' = (live \cup results \cup tmps) \ gone
     /\ freed' = freed \cup gone
     /\ releases' = releases + Cardinality(gone)

\* u_ = filter_(u, FilterKer); v_ = filter_(v, ...); w_ = filter_(w, ...);
FilterVelocities ==
  /\ UNCHANGED fvars
  /\ pc = "products"
  /\ u_' = [a \in 1..3 |-> Filter_(u[a], FilterKer, nalloc + 2 * (a - 1), residue)]
  /\ nalloc' = nalloc + 6
  /\ FilterHeap({u_Name(a) : a \in 1..3})
  /\ Uses({"u", "v", "w"})
  /\ pc' = "filteredU"
  /\ UNCHANGED <<calls, residue, inputs, mu_SGS, lastMu,
                 u, uu_, L, A, A_, B_, magStrain, Cd>>

\* uu_ = filter_(L11, FilterKer); ... ww_ = filter_(L33, FilterKer);
FilterProducts ==
  /\ UNCHANGED fvars
  /\ pc = "filteredU"
  /\ uu_' = [ab \in Comp |-> Filter_(L[ab], FilterKer, nalloc + 2 * (Pos(ab) - 1), residue)]
  /\ nalloc' = nalloc + 18
  /\ FilterHeap({uu_Name(ab) : ab \in Comp})
  /\ Uses({LName(ab) : ab \in Comp})
  /\ pc' = "filteredUU"
  /\ UNCHANGED <<calls, residue, inputs, mu_SGS, lastMu,
                 u, u_, L, A, A_, B_, magStrain, Cd>>

\* What the first interior loop computes at cell c: the Leonard stresses, the
\* resolved strain and its magnitude, the filtered strain, A and B_.
StrainAt(c) ==
  LET S == StrainTensor(u, c)
      mag == Magnitude(S)
      S_ == StrainTensor(u_, c)
      mag_ == Magnitude(S_)
  IN [L |-> Leonard(TensorAt(uu_, c), [a \in 1..3 |-> u_[a][c]]),
      S |-> S,
      magStrain |-> mag,
      B_ |-> Scaled(mag_, S_),
      A |-> Scaled(mag, S)]

\* The loop over the interior that fills L, magStrain, B_ and A.
StrainLoop ==
  /\ UNCHANGED fvars
  /\ pc = "filteredUU"
  /\ LET at == [c \in Interior |-> StrainAt(c)]
     IN /\ L' = [ab \in Comp |-> [c \in Cells |-> IF c \in Interior THEN at[c].L[ab] ELSE L[ab][c]]]
        /\ magStrain' = [c \in Cells |-> IF c \in Interior THEN at[c].magStrain ELSE magStrain[c]]
        /\ B_' = [ab \in Comp |-> [c \in Cells |-> IF c \in Interior THEN at[c].B_[ab] ELSE B_[ab][c]]]
        /\ A' = [ab \in Comp |-> [c \in Cells |-> IF c \in Interior THEN at[c].A[ab] ELSE A[ab][c]]]
  /\ Uses({"u", "v", "w", "magStrain"} \cup {u_Name(a) : a \in 1..3} \cup {uu_Name(ab) : ab \in Comp}
          \cup {LName(ab) : ab \in Comp} \cup {AName(ab) : ab \in Comp} \cup {B_Name(ab) : ab \in Comp})
  /\ pc' = "strain"
  /\ UNCHANGED <<calls, residue, nalloc, heapvars, inputs, mu_SGS, lastMu,
                 u, u_, uu_, A_, Cd>>

\* A11_ = filter_(A11,FilterKer); ... A33_ = filter_(A33,FilterKer);
FilterA ==
  /\ UNCHANGED fvars
  /\ pc = "strain"
  /\ A_' = [ab \in Comp |-> Filter_(A[ab], FilterKer, nalloc + 2 * (Pos(ab) - 1), residue)]
  /\ nalloc' = nalloc + 18
  /\ FilterHeap({A_Name(ab) : ab \in Comp})
  /\ Uses({AName(ab) : ab \in Comp})
  /\ pc' = "filteredA"
  /\ UNCHANGED <<calls, residue, inputs, mu_SGS, lastMu,
                 u, u_, uu_, L, A, B_, magStrain, Cd>>

\* The model tensor M11 .. M33 at cell c.
MAt(c) == ModelTensor(TensorAt(B_, c), TensorAt(A_, c))

\* What the second interior loop computes at cell c.
CoefficientAt(c) ==
  LET Lc == Deviatoric(TensorAt(L, c))
      cd == Clip(CdRaw(Lc, MAt(c)))
  IN [L |-> Lc, Cd |-> cd, mu |-> EddyViscosity(rho[c], cd, magStrain[c])]

\* The second loop started at 0 instead of 1.
MuCellsFromZero == {c \in Cells : InLoop(c, 0, LENN, 0, HIGG, 0, DEPP)}

\* The cells of mu_SGS the second loop writes.
MuCells == {c \in Cells : InLoop(c, 1, LENN, 1, HIGG, 1, DEPP)}

\* The loop over the interior that corrects L and writes mu_SGS.
CoefficientLoop ==
  /\ UNCHANGED fvars
  /\ pc = "filteredA"
  /\ LET at == [c \in MuCells |-> CoefficientAt(c)]
     IN /\ L' = [ab \in Comp |-> [c \in Cells |-> IF c \in MuCells THEN at[c].L[ab] ELSE L[ab][c]]]
        /\ Cd' = [c \in MuCells |-> at[c].Cd]
        /\ mu_SGS' = [c \in Cells |-> IF c \in MuCells THEN at[c].mu ELSE mu_SGS[c]]
  /\ Uses({"magStrain"} \cup {LName(ab) : ab \in Comp} \cup {A_Name(ab) : ab \in Comp} \cup {B_Name(ab) : ab \in Comp})
  /\ pc' = "coefficient"
  /\ UNCHANGED <<calls, residue, nalloc, heapvars, inputs, lastMu,
                 u, u_, uu_, A, A_, B_, magStrain>>

\* The heap after the first n free3D calls of FreeList.
RECURSIVE Released(_)
Released(n) ==
  IF n = 0 THEN [live |-> live, freed |-> freed, releases |-> releases, fault |-> fault]
  ELSE LET p == Released(n - 1)
           b == FreeList[n]
       IN [live |-> p.live \ {b},
           freed |-> p.freed \cup {b},
           releases |-> p.releases + 1,
           fault |-> (p.fault \/ b \notin p.live)]

\* The free3D calls that end DynamicSmagorinsky.
Free3D ==
  /\ UNCHANGED fvars
  /\ pc = "coefficient"
  /\ LET st == Released(Len(FreeList))
     IN /\ live' = st.live
        /\ freed' = st.freed
        /\ releases' = st.releases
        /\ fault' = st.fault
  /\ pc' = "freed"
  /\ UNCHANGED <<calls, residue, nalloc, allocd, inputs, mu_SGS, lastMu,
                 u, u_, uu_, L, A, A_, B_, magStrain, Cd>>

\* The closing brace: the locals go out of scope.
Return ==
  /\ UNCHANGED fvars
  /\ pc = "freed"
  /\ pc' = "returned"
  /\ u' = NoField /\ u_' = NoField /\ uu_' = NoField
  /\ L' = NoField /\ A' = NoField /\ A_' = NoField /\ B_' = NoField
  /\ magStrain' = NoField
  /\ UNCHANGED <<calls, residue, nalloc, heapvars, fault, inputs, mu_SGS, lastMu, Cd>>

(* ---------------------- filter_, pass by pass ----------------------- *)

\* Kernels a caller may pass: box, Gaussian, identity, and one that is not
\* normalized.
Kernels ==
  {<<R(1, 3), R(1, 3), R(1, 3)>>, <<R(1, 4), R(2, 4), R(1, 4)>>,
   <<Zero, R(1, 1), Zero>>, <<R(1, 1), R(1, 1), R(1, 1)>>}

FieldKinds == {"one", "minus2", "ramp", "mixed"}

\* Fields a caller may pass.
InputField(kind) ==
  [c \in Cells |->
     IF kind = "one" THEN R(1, 1)
     ELSE IF kind = "minus2" THEN R(-2, 1)
     ELSE IF kind = "ramp" THEN R(c[1] + 2 * c[2] + 3 * c[3], 1)
     ELSE R(((c[1] * c[2] + c[3]) % 3) - 1, 1)]

\* No filter_ call of its own is under way.
FilterIdle ==
  /\ fpc = "idle"
  /\ U = NoField /\ h = FilterKer /\ fres = "zero"
  /\ U_ = NoField /\ U__ = NoField
  /\ asg_ = {} /\ asg__ = {} /\ undefRead = {}
  /\ flive = {}
  /\ out = NoField

InitFilter ==
  /\ fpc = "entry"
  /\ \E kind \in FieldKinds : U = InputField(kind)
  /\ h \in Kernels
  /\ fres \in HeapResidues
  /\ U_ = NoField /\ U__ = NoField
  /\ asg_ = {} /\ asg__ = {} /\ undefRead = {}
  /\ flive = {}
  /\ out = NoField

\* U_ = Array3D(...); U__ = Array3D(...);
FAllocate ==
  /\ UNCHANGED dsvars
  /\ fpc = "entry"
  /\ U_' = Array3D(0, fres)
  /\ U__' = Array3D(1, fres)
  /\ flive' = {"U_", "U__"}
  /\ fpc' = "allocated"
  /\ UNCHANGED <<U, h, fres, asg_, asg__, undefRead, out>>

\* The cells among `written` whose stencil along ax reads a cell outside `defined`.
ReadsUndefined(written, ax, defined) ==
  {c \in written : \E o \in {-1, 0, 1} : Shift(c, ax, o) \notin defined}

FPass1 ==
  /\ UNCHANGED dsvars
  /\ fpc = "allocated"
  /\ U__' = Pass1(U, U__, h)
  /\ asg__' = asg__ \cup Pass1Cells
  /\ undefRead' = undefRead \cup ({1} \X ReadsUndefined(Pass1Cells, 2, Cells))
  /\ fpc' = "pass1"
  /\ UNCHANGED <<U, h, fres, U_, asg_, flive, out>>

FPass2 ==
  /\ UNCHANGED dsvars
  /\ fpc = "pass1"
  /\ U_' = Pass2(U__, U_, h)
  /\ asg_' = asg_ \cup Pass2Cells
  /\ undefRead' = undefRead \cup ({2} \X ReadsUndefined(Pass2Cells, 3, asg__))
  /\ fpc' = "pass2"
  /\ UNCHANGED <<U, h, fres, U__, asg__, flive, out>>

FPass3 ==
  /\ UNCHANGED dsvars
  /\ fpc = "pass2"
  /\ U__' = Pass3(U_, U__, h)
  /\ asg__' = asg__ \cup Pass3Cells
  /\ undefRead' = undefRead \cup ({3} \X ReadsUndefined(Pass3Cells, 1, asg_))
  /\ fpc' = "pass3"
  /\ UNCHANGED <<U, h, fres, U_, asg_, flive, out>>

\* free3D( U_ ,LEN+2, HIG+2 ); return U__;
FReturn ==
  /\ UNCHANGED dsvars
  /\ fpc = "pass3"
  /\ flive' = flive \ {"U_"}
  /\ U_' = NoField
  /\ out' = U__
  /\ fpc' = "returned"
  /\ UNCHANGED <<U, h, fres, U__, asg_, asg__, undefRead>>

NextFilter ==
  \/ FAllocate
  \/ FPass1
  \/ FPass2
  \/ FPass3
  \/ FReturn

(* -------------------------- specifications --------------------------- *)

NextDS ==
  \/ Allocate
  \/ Primitive
  \/ Products
  \/ FilterVelocities
  \/ FilterProducts
  \/ StrainLoop
  \/ FilterA
  \/ CoefficientLoop
  \/ Free3D
  \/ Return

vars == <<dsvars, fvars>>

\* DynamicSmagorinsky, called MaxCalls times on the caller's fields.
Init == InitDS /\ FilterIdle
Next == NextDS
Spec == Init /\ [][Next]_vars

\* filter_ alone, on a field and a kernel of the caller's choice.
DSIdle ==
  /\ InitDS
  /\ rho = RhoField("const")
  /\ ru = MomentumField("uniform", 1)
InitF == DSIdle /\ InitFilter
NextF == NextFilter
SpecFilter == InitF /\ [][NextF]_vars

(* ----------------------------- properties ---------------------------- *)

\* x and y are finite and differ by at most n units of 1/Q.
Within(x, y, n) == IsFinite(x) /\ IsFinite(y) /\ Abs(x[1] - y[1]) <= n

IsConstant(F) == \A c \in Cells : F[c] = F[<<0, 0, 0>>]

Normalized(ker) == Add(Add(ker[1], ker[2]), ker[3]) = R(1, 1)

\* C1: a kernel whose weights sum to 1 maps a field that holds one constant in
\* every cell to a field that holds the same constant at every interior cell.
ConstantPreserved ==
  (fpc = "returned" /\ Normalized(h) /\ IsConstant(U))
    => \A c \in Interior : Within(out[c], U[c], 1)

\* The local Cd before the clip, recomputed from the corrected L and from M.
RawCd(c) == CdRaw(TensorAt(L, c), MAt(c))

\* C2 as claimed: with rho >= 0 in every cell (rho = 0 included), mu_SGS >= 0
\* at every interior cell once the coefficient loop has run.
MuNonNegative ==
  (pc \in {"coefficient", "freed", "returned"} /\ \A c \in Cells : Ge(rho[c], Zero))
    => \A c \in Interior : Ge(mu_SGS[c], Zero)

\* C2 amended: mu_SGS is never negative; at an interior cell it is >= 0
\* unless it is NaN, and it is >= 0 wherever Cd and |S| are finite and rho > 0.
MuNeverNegative ==
  (pc \in {"coefficient", "freed"} /\ \A c \in Cells : Ge(rho[c], Zero))
    => \A c \in Interior :
         /\ IsNaN(mu_SGS[c]) \/ Ge(mu_SGS[c], Zero)
         /\ (IsFinite(Cd[c]) /\ IsFinite(magStrain[c]) /\ Gt(rho[c], Zero))
              => (IsFinite(mu_SGS[c]) /\ Ge(mu_SGS[c], Zero))

\* The coefficient loop wrote a positive eddy viscosity somewhere.
MuPositiveSomewhere ==
  /\ pc = "coefficient"
  /\ \E c \in Interior : Gt(mu_SGS[c], Zero) /\ IsFinite(mu_SGS[c])

\* C3 as claimed: Cd is the raw value clamped to [0, 0.15], and is never
\* outside [0, 0.15].
CdClamped ==
  pc = "coefficient"
    => \A c \in Interior :
         /\ Gt(RawCd(c), R(15, 100)) => Cd[c] = R(15, 100)
         /\ Lt(RawCd(c), Zero) => Cd[c] = Zero
         /\ (~Gt(RawCd(c), R(15, 100)) /\ ~Lt(RawCd(c), Zero)) => Cd[c] = RawCd(c)
         /\ Ge(Cd[c], Zero) /\ Ge(R(15, 100), Cd[c])

\* C3 amended: when the raw value is not NaN, Cd is its clamp to [0, 0.15];
\* when it is NaN, Cd is NaN.
CdClampedUnlessNaN ==
  pc = "coefficient"
    => \A c \in Interior :
         IF IsNaN(RawCd(c)) THEN IsNaN(Cd[c])
         ELSE /\ Gt(RawCd(c), R(15, 100)) => Cd[c] = R(15, 100)
              /\ Lt(RawCd(c), Zero) => Cd[c] = Zero
              /\ (~Gt(RawCd(c), R(15, 100)) /\ ~Lt(RawCd(c), Zero)) => Cd[c] = RawCd(c)
              /\ Ge(Cd[c], Zero) /\ Ge(R(15, 100), Cd[c])

\* One invocation capped Cd at 0.15 at one cell and kept a raw value strictly
\* inside the range at another.
CdCappedAndKept ==
  /\ pc = "coefficient"
  /\ \E c \in Interior : Gt(RawCd(c), R(15, 100)) /\ Cd[c] = R(15, 100)
  /\ \E c \in Interior :
       Gt(RawCd(c), Zero) /\ Lt(RawCd(c), R(15, 100)) /\ Cd[c] = RawCd(c)

\* C4: with rho one positive constant and ru, rv, rw constant, the nine
\* resolved strain components and |S| are zero and mu_SGS is zero at every
\* interior cell.
ZeroShear ==
  (/\ pc \in {"coefficient", "freed"}
   /\ IsConstant(rho) /\ Gt(rho[<<0, 0, 0>>], Zero)
   /\ IsConstant(ru) /\ IsConstant(rv) /\ IsConstant(rw))
    => \A c \in Interior :
         /\ \A ab \in Comp : StrainTensor(u, c)[ab] = Zero
         /\ magStrain[c] = Zero
         /\ mu_SGS[c] = Zero

\* L11 + L22 + L33 at cell c.
Trace(T, c) == Add(Add(T[<<1, 1>>][c], T[<<2, 2>>][c]), T[<<3, 3>>][c])

\* The off-diagonal components of L at c are the Leonard stresses the first
\* loop stored.
OffDiagonalKept(c) ==
  \A ab \in Comp :
    ab[1] # ab[2] => L[ab][c] = Leonard(TensorAt(uu_, c), [a \in 1..3 |-> u_[a][c]])[ab]

\* C5 as claimed: after the deviatoric correction L11 + L22 + L33 is zero (up
\* to the rounding of the correction) at every interior cell, for arbitrary
\* inputs, and the off-diagonal components are unchanged.
TraceRemoved ==
  pc = "coefficient"
    => \A c \in Interior : Within(Trace(L, c), Zero, 2) /\ OffDiagonalKept(c)

\* C5 amended: the trace is zero at every interior cell whose diagonal
\* components are finite; the off-diagonal components are unchanged.
TraceRemovedWhereFinite ==
  pc = "coefficient"
    => \A c \in Interior :
         /\ (IsFinite(L[<<1, 1>>][c]) /\ IsFinite(L[<<2, 2>>][c]) /\ IsFinite(L[<<3, 3>>][c]))
              => Within(Trace(L, c), Zero, 2)
         /\ OffDiagonalKept(c)

\* The correction removed a trace that was not zero.
TraceWasRemoved ==
  /\ pc = "coefficient"
  /\ \E c \in Interior :
       LET before == Leonard(TensorAt(uu_, c), [a \in 1..3 |-> u_[a][c]])
       IN /\ IsFinite(Trace(L, c))
          /\ ~Within(Add(Add(before[<<1, 1>>], before[<<2, 2>>]), before[<<3, 3>>]), Zero, 2)
          /\ L[<<1, 2>>][c] # Zero

\* C6: at every interior cell M_ij = M_ji, and L_ij = L_ji before and after
\* the deviatoric correction.
TensorsSymmetric ==
  /\ pc \in {"strain", "filteredA", "coefficient"}
       => \A c \in Interior : \A ab \in Comp : L[ab][c] = L[<<ab[2], ab[1]>>][c]
  /\ pc \in {"filteredA", "coefficient"}
       => \A c \in Interior : \A ab \in Comp : MAt(c)[ab] = MAt(c)[<<ab[2], ab[1]>>]

\* C7: with the kernel (0,1,0) the returned field equals the input at every
\* interior cell.
IdentityKernelKeepsField ==
  (fpc = "returned" /\ h = <<Zero, R(1, 1), Zero>>)
    => \A c \in Interior : out[c] = U[c]

\* C8: a second invocation on the same fields (rho nonzero everywhere) leaves
\* the same mu_SGS at every interior cell as the first, whatever the buffers
\* it allocates held before.
SameInputsSameMu ==
  (pc = "returned" /\ calls >= 2 /\ \A c \in Cells : rho[c] # Zero)
    => \A c \in Interior : mu_SGS[c] = lastMu[c]

\* C9: a step of DynamicSmagorinsky changes no ghost entry of mu_SGS and no
\* cell of rho, ru, rv, rw.
OnlyInteriorMuWritten ==
  [][/\ \A c \in Cells \ Interior : mu_SGS'[c] = mu_SGS[c]
     /\ rho' = rho /\ ru' = ru /\ rv' = rv /\ rw' = rw]_vars

\* An invocation returned with the interior of mu_SGS rewritten and its ghost
\* entries as the caller left them.
InteriorMuRewritten ==
  /\ pc = "returned"
  /\ \E c \in Interior : mu_SGS[c] # CallerMu[c]
  /\ \A c \in Cells \ Interior : mu_SGS[c] = CallerMu[c]

\* C10: no step uses or releases a buffer that is not live, and when
\* DynamicSmagorinsky returns every buffer allocated during the invocation
\* (31 of its own, two per filter_ call) has been released exactly once.
AllBuffersReleasedOnce ==
  /\ ~fault
  /\ pc = "returned"
       => /\ live = {}
          /\ freed = allocd
          /\ releases = Cardinality(allocd)
          /\ Cardinality(allocd) = 31 + 2 * 21

\* An invocation returned after allocating and releasing its buffers.
ReturnedAfterReleases ==
  /\ pc = "returned"
  /\ releases = 31 + 2 * 21
  /\ OwnBuffers \cup {TmpName(A_Name(ab)) : ab \in Comp} \subseteq freed

\* C11: in each of the three passes every written cell is computed from cells
\* that are defined: cells of the input, or cells an earlier pass assigned;
\* no pass computes a cell from an unassigned cell of U_ or U__.
PassesReadDefinedCells == undefRead = {}

====
